---- MODULE Spec2Model ----
(***************************************************************************)
(* A model of napari's OctreeIntersection                                  *)
(* (src/napari/layers/image/experimental/octree_intersection.py): the      *)
(* conversion of a viewport rectangle into clamped tile-index ranges at    *)
(* one octree level, the visibility test, and the lazy in-place            *)
(* materialization of the level's tile grid into OctreeChunk objects.      *)
(*                                                                         *)
(* Coordinates are Python floats in the source.  Here they are exact       *)
(* rationals [n, d] in lowest terms with d > 0, so division, clamping and  *)
(* int() truncation are computed exactly as the source computes them, up   *)
(* to floating-point rounding, which is not modelled.                      *)
(***************************************************************************)
EXTENDS Integers, Sequences, FiniteSets, TLC

VARIABLES
    levels,          \* level index -> OctreeLevel.info (never changes)
    tiles,           \* level index -> OctreeLevel.tiles: a list of rows of cells
    heap,            \* every OctreeChunk object ever created; its index is its identity
    isect,           \* the caller's current OctreeIntersection object, or Null
    caller_corners,  \* the corners_2d array the caller passed to the constructor
    ret,             \* what the last call returned (for get_chunks also the
                     \* chunk objects the call created)
    nops,            \* number of calls the caller has made so far
    threads,         \* per thread: the position of its get_chunks call
    viewer_layers    \* viewer.layers: the name and shape of every layer added

vars == <<viewer_layers, levels, tiles, heap, isect, caller_corners, ret, nops, threads>>

Null == [kind |-> "null"]

-----------------------------------------------------------------------------
(* Bounds of the model.                                                    *)

MaxOps == 5         \* calls the caller makes in one behaviour of Spec
MaxRangeOps == 2    \* calls the caller makes in one behaviour of SpecRange
MaxNumTiles == 2    \* num_tiles arguments of a direct tile_range call
MaxLayers == 3      \* layers added to the viewer in one behaviour of SpecLoader

SliceIds == {0, 1}
Threads == {"t1", "t2"}

-----------------------------------------------------------------------------
(* Exact rational arithmetic standing for the float arithmetic.            *)

Abs(x) == IF x < 0 THEN -x ELSE x

RECURSIVE GCD(_, _)
GCD(a, b) == IF b = 0 THEN a ELSE GCD(b, a % b)

\* n / d in lowest terms, d > 0.
Rat(n, d) == LET g == GCD(Abs(n), d) IN [n |-> n \div g, d |-> d \div g]

RatInt(k) == [n |-> k, d |-> 1]

\* a / b for b > 0 (every divisor in the source is a positive size or scale).
RatDiv(a, b) == Rat(a.n * b.d, a.d * b.n)

RatAddInt(a, k) == Rat(a.n + k * a.d, a.d)

RatLess(a, b) == a.n * b.d < b.n * a.d

RatLeq(a, b) == a.n * b.d <= b.n * a.d

\* Python's min(a, b): a unless b < a.
RatMin(a, b) == IF RatLess(b, a) THEN b ELSE a

\* Python's max(a, b): a unless a < b.
RatMax(a, b) == IF RatLess(a, b) THEN b ELSE a

\* int(x): truncation toward zero.
RatTrunc(a) == IF a.n >= 0 THEN a.n \div a.d ELSE -((-a.n) \div a.d)

\* Smallest integer k with k * d >= n, for n >= 0 and d > 0.
CeilDiv(n, d) == (n + d - 1) \div d

-----------------------------------------------------------------------------
(* The level descriptors and tile grids the intersection is given.         *)

\* image_config of the image: base_shape (rows, cols) and tile_size.
ImageConfigs ==
    { [base_shape |-> <<1000, 1000>>, tile_size |-> 100],
      [base_shape |-> <<13, 9>>, tile_size |-> 2] }

\* The levels of the pyramid the caller queries, and the scale of each:
\* level l is downsampled by 2^l.
LevelIds == {1, 2}

LevelScale(l) == 2 ^ l

LevelInfo(cfg, l) ==
    LET scale == LevelScale(l) IN
    [ level_index |-> l,
      scale |-> scale,
      image_config |-> cfg,
      shape_in_tiles |->
          << CeilDiv(cfg.base_shape[1], cfg.tile_size * scale),
             CeilDiv(cfg.base_shape[2], cfg.tile_size * scale) >> ]

\* The untouched payload of a tile: distinct for every cell of every level.
Raw(l, row, col) == [kind |-> "raw", payload |-> <<l, row, col>>]

\* OctreeLevel.tiles before the first query: a list of rows, each a list of
\* raw tiles, shape_in_tiles[0] rows by shape_in_tiles[1] columns.  Python
\* index i is element i + 1 of the sequence.
RawTiles(info) ==
    [r \in 1 .. info.shape_in_tiles[1] |->
        [c \in 1 .. info.shape_in_tiles[2] |-> Raw(info.level_index, r - 1, c - 1)]]

\* A grid cell that holds an OctreeChunk holds a reference to the object.
ChunkRef(id) == [kind |-> "chunk", id |-> id]

\* isinstance(data, OctreeChunk)
IsChunk(data) == data.kind = "chunk"

\* Python's list[i] for a list of length n: the 1-based position it reads
\* (negative indices count from the end), or 0 when it raises IndexError.
ListIndex(i, n) ==
    IF 0 <= i /\ i < n THEN i + 1
    ELSE IF -n <= i /\ i < 0 THEN i + n + 1
    ELSE 0

-----------------------------------------------------------------------------
(* OctreeIntersection: construction and the range utility.                 *)

range(start, stop) == [start |-> start, stop |-> stop]

\* len(range(start, stop))
RangeLen(r) == IF r.stop > r.start THEN r.stop - r.start ELSE 0

\* The clamp without its upper limit.
_clamp_min_only(val, min_val, max_val) == RatMax(val, RatInt(min_val))

_clamp(val, min_val, max_val) ==
    RatMax(RatMin(val, RatInt(max_val)), RatInt(min_val))

\* The range clamped to num_tiles instead of num_tiles - 1.
tile_range_clamped_to_num_tiles(info, span, num_tiles) ==
    LET tile_size == info.image_config.tile_size
        span_tiles == << RatDiv(span[1], RatInt(tile_size)),
                         RatDiv(span[2], RatInt(tile_size)) >>
        clamped == << _clamp(span_tiles[1], 0, num_tiles),
                      RatAddInt(_clamp(span_tiles[2], 0, num_tiles), 1) >>
    IN  range(RatTrunc(clamped[1]), RatTrunc(clamped[2]))

\* The range with 1 added to the upper end before the clamp, not after it.
tile_range_adds_before_clamp(info, span, num_tiles) ==
    LET tile_size == info.image_config.tile_size
        span_tiles == << RatDiv(span[1], RatInt(tile_size)),
                         RatDiv(span[2], RatInt(tile_size)) >>
        clamped == << _clamp(span_tiles[1], 0, num_tiles - 1),
                      _clamp(RatAddInt(span_tiles[2], 1), 0, num_tiles - 1) >>
    IN  range(RatTrunc(clamped[1]), RatTrunc(clamped[2]))

\* tile_range without the + 1 on the upper end.
tile_range_without_plus_one(info, span, num_tiles) ==
    LET tile_size == info.image_config.tile_size
        span_tiles == << RatDiv(span[1], RatInt(tile_size)),
                         RatDiv(span[2], RatInt(tile_size)) >>
        clamped == << _clamp(span_tiles[1], 0, num_tiles - 1),
                      _clamp(span_tiles[2], 0, num_tiles - 1) >>
    IN  range(RatTrunc(clamped[1]), RatTrunc(clamped[2]))

tile_range(info, span, num_tiles) ==
    LET tile_size == info.image_config.tile_size
        span_tiles == << RatDiv(span[1], RatInt(tile_size)),
                         RatDiv(span[2], RatInt(tile_size)) >>
        clamped == << _clamp(span_tiles[1], 0, num_tiles - 1),
                      RatAddInt(_clamp(span_tiles[2], 0, num_tiles - 1), 1) >>
        span_int == << RatTrunc(clamped[1]), RatTrunc(clamped[2]) >>
    IN  range(span_int[1], span_int[2])

row_range(info, span) == tile_range(info, span, info.shape_in_tiles[1])

column_range(info, span) == tile_range(info, span, info.shape_in_tiles[2])

\* Clipping from above only.
np_clip_max_only(x) == RatMin(x, RatInt(1))

\* np.clip(x, 0, 1)
np_clip(x) == RatMin(RatMax(x, RatInt(0)), RatInt(1))

\* The object __init__ would leave behind if normalized_range were taken
\* after the in-place division by the scale.
OctreeIntersection_normalized_after_rescale(level, corners_2d) ==
    LET info == levels[level]
        base == info.image_config.base_shape
        rows == << RatDiv(corners_2d[1][1], RatInt(info.scale)),
                   RatDiv(corners_2d[2][1], RatInt(info.scale)) >>
        cols == << RatDiv(corners_2d[1][2], RatInt(info.scale)),
                   RatDiv(corners_2d[2][2], RatInt(info.scale)) >>
    IN  [ kind |-> "intersection",
          level |-> level,
          corners_2d |-> << <<rows[1], cols[1]>>, <<rows[2], cols[2]>> >>,
          rows |-> rows,
          cols |-> cols,
          normalized_range |->
            << << np_clip(RatDiv(rows[1], RatInt(base[1]))),
                  np_clip(RatDiv(rows[2], RatInt(base[1]))) >>,
               << np_clip(RatDiv(cols[1], RatInt(base[2]))),
                  np_clip(RatDiv(cols[2], RatInt(base[2]))) >> >>,
          _row_range |-> row_range(info, rows),
          _col_range |-> column_range(info, cols) ]

\* The object __init__ leaves behind.  corners_2d is <<lower, upper>>, each
\* corner <<row, col>>.  self.rows and self.cols are numpy views of the
\* columns of self.corners_2d, so dividing them in place by the scale also
\* rewrites self.corners_2d (the copy, never the caller's array).
OctreeIntersection(level, corners_2d) ==
    LET info == levels[level]
        copy == corners_2d
        rows0 == << copy[1][1], copy[2][1] >>
        cols0 == << copy[1][2], copy[2][2] >>
        base == info.image_config.base_shape
        normalized_range ==
            << << np_clip(RatDiv(rows0[1], RatInt(base[1]))),
                  np_clip(RatDiv(rows0[2], RatInt(base[1]))) >>,
               << np_clip(RatDiv(cols0[1], RatInt(base[2]))),
                  np_clip(RatDiv(cols0[2], RatInt(base[2]))) >> >>
        rows == << RatDiv(rows0[1], RatInt(info.scale)),
                   RatDiv(rows0[2], RatInt(info.scale)) >>
        cols == << RatDiv(cols0[1], RatInt(info.scale)),
                   RatDiv(cols0[2], RatInt(info.scale)) >>
    IN  [ kind |-> "intersection",
          level |-> level,
          corners_2d |-> << <<rows[1], cols[1]>>, <<rows[2], cols[2]>> >>,
          rows |-> rows,
          cols |-> cols,
          normalized_range |-> normalized_range,
          _row_range |-> row_range(info, rows),
          _col_range |-> column_range(info, cols) ]

\* self.corners_2d bound to the caller's array itself, without the copy.
corners_buffer_of_caller == "caller"

\* The array self.corners_2d is bound to: corners_2d.copy() is a new array
\* ("own"), not the array the caller passed ("caller").
corners_buffer == "own"

\* What the caller's array holds when __init__ returns: the in-place
\* divisions write to the array self.corners_2d is bound to.
caller_array_after_init(level, corners_2d) ==
    IF corners_buffer = "caller"
    THEN OctreeIntersection(level, corners_2d).corners_2d
    ELSE corners_2d

\* The test with a closed upper end.
_inside_closed(value, value_range) ==
    value_range.start <= value /\ value <= value_range.stop

_inside(value, value_range) ==
    value_range.start <= value /\ value < value_range.stop

is_visible(I, row, col) ==
    _inside(row, I._row_range) /\ _inside(col, I._col_range)

-----------------------------------------------------------------------------
(* OctreeIntersection.get_chunks.                                          *)

\* tile_size * scale
scaled_size(info) == info.image_config.tile_size * info.scale

\* The loop variables on entry to the first iteration:
\* y = row_range.start * scaled_size, x = col_range.start * scaled_size.
loop_start(I) ==
    LET info == levels[I.level] IN
    [ row |-> I._row_range.start,
      col |-> I._col_range.start,
      x |-> I._col_range.start * scaled_size(info),
      y |-> I._row_range.start * scaled_size(info) ]

\* The loops stopping one row early.
loop_done_early(I, pos) ==
    \/ pos.row + 1 >= I._row_range.stop
    \/ I._col_range.start >= I._col_range.stop

\* The two nested for loops have no iteration left at pos.
loop_done(I, pos) ==
    \/ pos.row >= I._row_range.stop
    \/ I._col_range.start >= I._col_range.stop

\* The loop variables after the iteration at pos, with x reset to 0 at the
\* end of a row instead of to the start of the column range.
loop_next_resets_x_to_zero(I, pos) ==
    LET info == levels[I.level] IN
    IF pos.col + 1 < I._col_range.stop
    THEN [pos EXCEPT !.col = pos.col + 1, !.x = pos.x + scaled_size(info)]
    ELSE [ row |-> pos.row + 1,
           col |-> I._col_range.start,
           x |-> 0,
           y |-> pos.y + scaled_size(info) ]

\* The loop variables after the iteration at pos: x += scaled_size and the
\* next column, or at the end of the row y += scaled_size, the next row and
\* x reset to the start of the column range.
loop_next(I, pos) ==
    LET info == levels[I.level] IN
    IF pos.col + 1 < I._col_range.stop
    THEN [pos EXCEPT !.col = pos.col + 1, !.x = pos.x + scaled_size(info)]
    ELSE [ row |-> pos.row + 1,
           col |-> I._col_range.start,
           x |-> I._col_range.start * scaled_size(info),
           y |-> pos.y + scaled_size(info) ]

\* self.level.tiles[row][col] can be read without an IndexError.
cell_in_list(grid, row, col) ==
    /\ ListIndex(row, Len(grid)) # 0
    /\ ListIndex(col, Len(grid[ListIndex(row, Len(grid))])) # 0

\* The read taking the row's first cell: data = self.level.tiles[row][0]
read_cell_of_first_column(grid, row, col) ==
    LET r == ListIndex(row, Len(grid)) IN grid[r][ListIndex(0, Len(grid[r]))]

\* data = self.level.tiles[row][col]
read_cell(grid, row, col) ==
    LET r == ListIndex(row, Len(grid)) IN grid[r][ListIndex(col, Len(grid[r]))]

\* The assignment with row and column exchanged.
write_cell_transposed(grid, row, col, value) ==
    LET r == ListIndex(col, Len(grid)) IN
    IF r = 0 \/ ListIndex(row, Len(grid[r])) = 0
    THEN grid
    ELSE [grid EXCEPT ![r][ListIndex(row, Len(grid[r]))] = value]

\* self.level.tiles[row][col] = value
write_cell(grid, row, col, value) ==
    LET r == ListIndex(row, Len(grid)) IN
    [grid EXCEPT ![r][ListIndex(col, Len(grid[r]))] = value]

\* OctreeChunk(data, OctreeLocation(slice_id, level_index, row, col),
\*             OctreeChunkGeom(pos, scale_vec))
OctreeChunk(info, slice_id, pos, data) ==
    [ data |-> data,
      location |-> [ slice_id |-> slice_id,
                     level_index |-> info.level_index,
                     row |-> pos.row,
                     col |-> pos.col ],
      geom |-> [ pos |-> <<pos.x, pos.y>>,
                 scale |-> <<info.scale, info.scale>> ] ]

\* The else branch without the write back into the grid.
wrap_cell_not_stored(I, slice_id, pos, data, st) ==
    [st EXCEPT
        !.heap = Append(st.heap, OctreeChunk(levels[I.level], slice_id, pos, data)),
        !.chunks = Append(st.chunks, Len(st.heap) + 1)]

\* The else branch of the loop body: wrap data in a new chunk object, put
\* it into the grid cell and append it.
wrap_cell(I, slice_id, pos, data, st) ==
    LET id == Len(st.heap) + 1 IN
    IF ~cell_in_list(st.grid, pos.row, pos.col)
    THEN [st EXCEPT !.error = TRUE]
    ELSE [st EXCEPT
            !.heap = Append(st.heap, OctreeChunk(levels[I.level], slice_id, pos, data)),
            !.grid = write_cell(st.grid, pos.row, pos.col, ChunkRef(id)),
            !.chunks = Append(st.chunks, id)]

\* The loop body without the isinstance test: every visit wraps the cell.
visit_cell_always_wraps(I, slice_id, pos, st) ==
    IF ~cell_in_list(st.grid, pos.row, pos.col)
    THEN [st EXCEPT !.error = TRUE]
    ELSE wrap_cell(I, slice_id, pos, read_cell(st.grid, pos.row, pos.col), st)

\* The loop body writing the call's slice_id into a chunk it finds.
visit_cell_restamps_slice_id(I, slice_id, pos, st) ==
    IF ~cell_in_list(st.grid, pos.row, pos.col)
    THEN [st EXCEPT !.error = TRUE]
    ELSE LET data == read_cell(st.grid, pos.row, pos.col) IN
         IF IsChunk(data)
         THEN [st EXCEPT !.chunks = Append(st.chunks, data.id),
                         !.heap[data.id].location.slice_id = slice_id]
         ELSE wrap_cell(I, slice_id, pos, data, st)

\* One iteration of the loop body at pos.  st holds the level's tile grid,
\* the chunk objects, the chunks list being built, and whether an
\* IndexError was raised.
visit_cell(I, slice_id, pos, st) ==
    IF ~cell_in_list(st.grid, pos.row, pos.col)
    THEN [st EXCEPT !.error = TRUE]
    ELSE LET data == read_cell(st.grid, pos.row, pos.col) IN
         IF IsChunk(data)
         THEN [st EXCEPT !.chunks = Append(st.chunks, data.id)]
         ELSE wrap_cell(I, slice_id, pos, data, st)

RECURSIVE get_chunks_loop(_, _, _, _)
get_chunks_loop(I, slice_id, pos, st) ==
    IF st.error \/ loop_done(I, pos)
    THEN st
    ELSE get_chunks_loop(I, slice_id, loop_next(I, pos),
                         visit_cell(I, slice_id, pos, st))

\* The whole call, run without interruption, on the grid and heap given.
get_chunks(I, slice_id, grid, hp) ==
    get_chunks_loop(I, slice_id, loop_start(I),
                    [grid |-> grid, heap |-> hp, chunks |-> <<>>, error |-> FALSE])

-----------------------------------------------------------------------------
(* The viewports the caller asks about.                                    *)

\* Corners in twentieths of the base image's extent: <<lower, upper>>, each
\* <<row, col>>.  For a 1000 x 1000 base these are (-500,-500)..(-100,-100),
\* (0,0)..(250,250), (0,200)..(250,450), (1100,1100)..(1200,1200) and
\* (-100,250)..(450,1200).
ViewportFractions ==
    { << <<-10, -10>>, <<-2, -2>> >>,
      << <<0, 0>>, <<5, 5>> >>,
      << <<0, 4>>, <<5, 9>> >>,
      << <<22, 22>>, <<24, 24>> >>,
      << <<-2, 5>>, <<9, 24>> >> }

Corners(cfg, f) ==
    << << Rat(f[1][1] * cfg.base_shape[1], 20), Rat(f[1][2] * cfg.base_shape[2], 20) >>,
       << Rat(f[2][1] * cfg.base_shape[1], 20), Rat(f[2][2] * cfg.base_shape[2], 20) >> >>

Viewports ==
    LET cfg == (CHOOSE l \in LevelIds : TRUE) IN
    { Corners(levels[cfg].image_config, f) : f \in ViewportFractions }

\* The spans of a direct tile_range call: both ends on multiples of half a
\* tile, from one tile below 0 to one tile above num_tiles tiles.
HalfTiles == -2 .. (2 * MaxNumTiles + 2)

Spans(tile_size) ==
    { << Rat(a * tile_size, 2), Rat(b * tile_size, 2) >> :
        <<a, b>> \in { h \in HalfTiles \X HalfTiles : h[1] <= h[2] } }

-----------------------------------------------------------------------------
(* The state machine: one caller, every call run to completion.            *)

Idle == [pc |-> "idle"]

Init ==
    /\ \E cfg \in ImageConfigs : levels = [l \in LevelIds |-> LevelInfo(cfg, l)]
    /\ tiles = [l \in LevelIds |-> RawTiles(levels[l])]
    /\ heap = <<>>
    /\ isect = Null
    /\ caller_corners = Null
    /\ ret = [op |-> "none"]
    /\ nops = 0
    /\ threads = [t \in Threads |-> Idle]
    /\ viewer_layers = <<>>

\* intersection = OctreeIntersection(level, corners_2d)
Construct(level, corners_2d) ==
    /\ nops' = nops + 1
    /\ isect' = OctreeIntersection(level, corners_2d)
    /\ caller_corners' = caller_array_after_init(level, corners_2d)
    /\ ret' = [op |-> "init", level |-> level, corners_2d |-> corners_2d]
    /\ UNCHANGED <<viewer_layers, levels, tiles, heap, threads>>

\* intersection.get_chunks(slice_id)
GetChunks(slice_id) ==
    /\ isect # Null
    /\ nops' = nops + 1
    /\ LET st == get_chunks(isect, slice_id, tiles[isect.level], heap) IN
        /\ tiles' = [tiles EXCEPT ![isect.level] = st.grid]
        /\ heap' = st.heap
        /\ ret' = [ op |-> "get_chunks", slice_id |-> slice_id,
                    chunks |-> st.chunks, error |-> st.error,
                    created |-> SubSeq(st.heap, Len(heap) + 1, Len(st.heap)) ]
    /\ UNCHANGED <<viewer_layers, levels, isect, caller_corners, threads>>

\* intersection.is_visible(row, col)
IsVisible(row, col) ==
    /\ isect # Null
    /\ nops' = nops + 1
    /\ ret' = [ op |-> "is_visible", row |-> row, col |-> col,
                result |-> is_visible(isect, row, col) ]
    /\ UNCHANGED <<viewer_layers, levels, tiles, heap, isect, caller_corners, threads>>

\* intersection.tile_range(span, num_tiles)
TileRange(span, num_tiles) ==
    /\ isect # Null
    /\ nops' = nops + 1
    /\ ret' = [ op |-> "tile_range", span |-> span, num_tiles |-> num_tiles,
                result |-> tile_range(levels[isect.level], span, num_tiles) ]
    /\ UNCHANGED <<viewer_layers, levels, tiles, heap, isect, caller_corners, threads>>

\* The rows and columns is_visible is asked about: both ends of both
\* ranges, and the index just outside each end.
Edge(r) == { r.start - 1, r.start, r.stop - 1, r.stop }

\* A caller that builds intersections, fetches their chunks and tests
\* tiles for visibility.
Next ==
    \/ /\ nops < MaxOps
       /\ \E level \in LevelIds, corners_2d \in Viewports : Construct(level, corners_2d)
    \/ /\ nops < MaxOps
       /\ \E slice_id \in SliceIds : GetChunks(slice_id)
    \/ /\ nops < MaxOps
       /\ isect # Null
       /\ \E row \in Edge(isect._row_range), col \in Edge(isect._col_range) :
              IsVisible(row, col)

Spec == Init /\ [][Next]_vars

\* A caller that builds an intersection and then either fetches its chunks
\* or calls the range utility on a span and a tile count of its own.
NextRange ==
    \/ /\ nops < MaxRangeOps
       /\ \E level \in LevelIds, corners_2d \in Viewports : Construct(level, corners_2d)
    \/ /\ nops < MaxRangeOps
       /\ \E slice_id \in SliceIds : GetChunks(slice_id)
    \/ /\ nops < MaxRangeOps
       /\ isect # Null
       /\ \E span \in Spans(levels[isect.level].image_config.tile_size),
             num_tiles \in 1 .. MaxNumTiles :
              TileRange(span, num_tiles)

SpecRange == Init /\ [][NextRange]_vars

-----------------------------------------------------------------------------
(* Several threads, each building an intersection of its own and calling   *)
(* get_chunks on it.  The source takes no lock, so a thread can be         *)
(* preempted between reading a cell (data = self.level.tiles[row][col])    *)
(* and writing the new chunk into it.                                      *)

\* The viewports the threads ask about: the same tiles, and tiles shifted
\* by one column.
ThreadViewportFractions ==
    { << <<0, 0>>, <<5, 5>> >>,
      << <<0, 4>>, <<5, 9>> >> }

ThreadViewports ==
    LET cfg == (CHOOSE l \in LevelIds : TRUE) IN
    { Corners(levels[cfg].image_config, f) : f \in ThreadViewportFractions }

\* Where thread t goes after the iteration at its current position.
Advance(t, chunks) ==
    LET T == threads[t]
        pos == loop_next(T.I, T.pos) IN
    [T EXCEPT !.pos = pos,
              !.chunks = chunks,
              !.data = Null,
              !.pc = IF loop_done(T.I, pos) THEN "done" ELSE "read"]

\* Thread t builds OctreeIntersection(level, corners_2d) and enters
\* get_chunks(slice_id), up to the first iteration of the loop.
T_Call(t, level, corners_2d, slice_id) ==
    /\ threads[t].pc = "idle"
    /\ LET I == OctreeIntersection(level, corners_2d) IN
        threads' = [threads EXCEPT ![t] =
            [ pc |-> IF loop_done(I, loop_start(I)) THEN "done" ELSE "read",
              I |-> I,
              slice_id |-> slice_id,
              pos |-> loop_start(I),
              data |-> Null,
              chunks |-> <<>> ]]
    /\ UNCHANGED <<viewer_layers, levels, tiles, heap, isect, caller_corners, ret, nops>>

\* Thread t reads the cell and tests isinstance(data, OctreeChunk); a cell
\* that already holds a chunk is appended and the loop moves on.
T_Read(t) ==
    LET T == threads[t]
        grid == tiles[T.I.level] IN
    /\ T.pc = "read"
    /\ IF ~cell_in_list(grid, T.pos.row, T.pos.col)
       THEN threads' = [threads EXCEPT ![t].pc = "error"]
       ELSE LET data == read_cell(grid, T.pos.row, T.pos.col) IN
            IF IsChunk(data)
            THEN threads' = [threads EXCEPT ![t] = Advance(t, Append(T.chunks, data.id))]
            ELSE threads' = [threads EXCEPT ![t].pc = "write", ![t].data = data]
    /\ UNCHANGED <<viewer_layers, levels, tiles, heap, isect, caller_corners, ret, nops>>

\* Thread t wraps the data it read into a new chunk, writes the chunk into
\* the cell and appends it.
T_Write(t) ==
    LET T == threads[t]
        st == wrap_cell(T.I, T.slice_id, T.pos, T.data,
                        [ grid |-> tiles[T.I.level], heap |-> heap,
                          chunks |-> T.chunks, error |-> FALSE ]) IN
    /\ T.pc = "write"
    /\ tiles' = [tiles EXCEPT ![T.I.level] = st.grid]
    /\ heap' = st.heap
    /\ threads' = [threads EXCEPT ![t] =
           IF st.error THEN [T EXCEPT !.pc = "error"] ELSE Advance(t, st.chunks)]
    /\ UNCHANGED <<viewer_layers, levels, isect, caller_corners, ret, nops>>

NextConc ==
    \/ \E t \in Threads, level \in LevelIds, corners_2d \in ThreadViewports,
          slice_id \in SliceIds : T_Call(t, level, corners_2d, slice_id)
    \/ \E t \in Threads : T_Read(t)
    \/ \E t \in Threads : T_Write(t)

SpecConc == Init /\ [][NextConc]_vars

-----------------------------------------------------------------------------
(* The loader commands of the debug console, as test_loader.py uses them:  *)
(* viewer.add_image(data, name=...) and LoaderCommands(viewer.layers).layers, *)
(* which prints a table of the layers.  The command's own code is not part *)
(* of the sources modelled here; the table is the one the specification    *)
(* and the tests describe: a header row and one row per layer.             *)

LayerNames == {"pizza", "Image"}

LayerShapes == { <<10, 15>>, <<4, 4>> }

LayersHeader == <<"ID", "NAME", "LAYER", "SHAPE">>

\* The table without the row of the last layer.
layers_table_drops_last(ls) ==
    <<LayersHeader>> \o
        [i \in 1 .. (IF Len(ls) > 0 THEN Len(ls) - 1 ELSE 0) |->
            <<i - 1, ls[i].name, "Image", ls[i].shape>>]

\* The printed table: the header, then id, name, layer type and shape of
\* every layer, in the viewer's order.
layers_table(ls) ==
    <<LayersHeader>> \o
        [i \in 1 .. Len(ls) |-> <<i - 1, ls[i].name, "Image", ls[i].shape>>]

\* viewer.add_image(data, name=name), data of the given shape
AddImage(name, shape) ==
    /\ Len(viewer_layers) < MaxLayers
    /\ viewer_layers' = Append(viewer_layers, [name |-> name, shape |-> shape])
    /\ ret' = [op |-> "add_image"]
    /\ UNCHANGED <<levels, tiles, heap, isect, caller_corners, nops, threads>>

\* loader.layers
LoaderLayers ==
    /\ ret' = [op |-> "layers", out |-> layers_table(viewer_layers)]
    /\ UNCHANGED <<viewer_layers, levels, tiles, heap, isect, caller_corners, nops, threads>>

NextLoader ==
    \/ \E name \in LayerNames, shape \in LayerShapes : AddImage(name, shape)
    \/ LoaderLayers

SpecLoader == Init /\ [][NextLoader]_vars

-----------------------------------------------------------------------------
(* Properties.                                                             *)

\* The content of cell (row, col) of level l's grid, rows and columns
\* counted from 0 as in the source.
Cell(l, row, col) == tiles[l][row + 1][col + 1]

Rows(l) == 0 .. (Len(tiles[l]) - 1)

Cols(l) == 0 .. (Len(tiles[l][1]) - 1)

\* The last call was get_chunks and it returned normally.
Returned == ret.op = "get_chunks" /\ ~ret.error

\* The step is a call of get_chunks.
GetChunksStep == nops' = nops + 1 /\ ret'.op = "get_chunks"

\* C1: a cell that holds a chunk holds the same chunk object, itself
\* unchanged, after every step: no call reverts a cell to raw data or puts
\* another chunk into it, so each cell is materialized at most once.
C1_MaterializedOnce ==
    [][\A l \in LevelIds : \A row \in Rows(l) : \A col \in Cols(l) :
          IsChunk(Cell(l, row, col)) =>
              /\ tiles'[l][row + 1][col + 1] = Cell(l, row, col)
              /\ heap'[Cell(l, row, col).id] = heap[Cell(l, row, col).id]]_vars

\* A get_chunks call has come back with a chunk that an earlier call, made
\* under another slice id, had created.
C1_Witness ==
    /\ Returned
    /\ \E i \in 1 .. Len(ret.chunks) :
          heap[ret.chunks[i]].location.slice_id # ret.slice_id

\* C2: a get_chunks call that directly follows a get_chunks call on the
\* same intersection with the same slice id returns the same chunk objects
\* in the same order, creates no chunk and leaves every grid unchanged.
C2_GetChunksIdempotent ==
    [][(/\ Returned
        /\ GetChunksStep
        /\ isect' = isect
        /\ ret'.slice_id = ret.slice_id)
       => (/\ ret'.chunks = ret.chunks
           /\ ~ret'.error
           /\ ret'.created = <<>>
           /\ heap' = heap
           /\ tiles' = tiles)]_vars

\* The third call of a behaviour is a get_chunks that found every cell of a
\* non-empty range materialized under its own slice id: the first call
\* built the intersection, the second and the third fetched its chunks.
C2_Witness ==
    /\ nops = 3
    /\ Returned
    /\ ret.created = <<>>
    /\ Len(ret.chunks) > 1
    /\ \A i \in 1 .. Len(ret.chunks) :
          heap[ret.chunks[i]].location.slice_id = ret.slice_id

\* The cells of the intersection's ranges, row-major: rows outer, columns
\* inner.
RowMajor(I) ==
    LET w == RangeLen(I._col_range)
        n == RangeLen(I._row_range) * w IN
    [k \in 1 .. n |-> << I._row_range.start + ((k - 1) \div w),
                         I._col_range.start + ((k - 1) % w) >>]

InRanges(I, row, col) ==
    /\ I._row_range.start <= row /\ row < I._row_range.stop
    /\ I._col_range.start <= col /\ col < I._col_range.stop

\* C8: a get_chunks call turns every raw cell inside row_range x col_range
\* of its level into a newly created chunk and changes no other cell of
\* any level; the chunks that were there before are returned as they were.
C8_OnlyRawCellsInRangeChange ==
    [][GetChunksStep =>
        /\ \A l \in LevelIds : \A row \in Rows(l) : \A col \in Cols(l) :
              IF l = isect.level /\ InRanges(isect, row, col) /\ ~IsChunk(Cell(l, row, col))
              THEN /\ IsChunk(tiles'[l][row + 1][col + 1])
                   /\ tiles'[l][row + 1][col + 1].id > Len(heap)
              ELSE tiles'[l][row + 1][col + 1] = Cell(l, row, col)
        /\ \A k \in 1 .. Len(ret'.chunks) :
              LET rc == RowMajor(isect)[k] IN
              IsChunk(Cell(isect.level, rc[1], rc[2])) =>
                  /\ ret'.chunks[k] = Cell(isect.level, rc[1], rc[2]).id
                  /\ heap'[ret'.chunks[k]] = heap[ret'.chunks[k]]]_vars

\* A query whose column range starts one tile further right than the range
\* that materialized its first column: that column's chunks come back as
\* they were and the newly entered column is materialized by this call.
C8_Witness ==
    /\ Returned
    /\ isect._col_range = range(1, 3)
    /\ \E i, j \in 1 .. Len(ret.chunks) :
          /\ heap[ret.chunks[i]].location.col = 1
          /\ ret.chunks[i] <= Len(heap) - Len(ret.created)
          /\ heap[ret.chunks[j]].location.col = 2
          /\ ret.chunks[j] > Len(heap) - Len(ret.created)

\* C9: get_chunks returns one chunk per cell of row_range x col_range, in
\* row-major order: the k-th chunk is the object in the k-th cell and is
\* located there.  For base 1000 x 1000, scale 2, tile size 100, 5 x 5
\* tiles and corners (0,0)..(250,250) both ranges are [0, 2) and the chunks
\* are those of (0,0), (0,1), (1,0), (1,1).
C9_OneChunkPerCellRowMajor ==
    ret.op = "get_chunks" =>
        /\ ~ret.error
        /\ Len(ret.chunks) = RangeLen(isect._row_range) * RangeLen(isect._col_range)
        /\ \A k \in 1 .. Len(ret.chunks) :
              LET rc == RowMajor(isect)[k]
                  loc == heap[ret.chunks[k]].location IN
              /\ Cell(isect.level, rc[1], rc[2]) = ChunkRef(ret.chunks[k])
              /\ <<loc.row, loc.col>> = rc
        /\ (/\ levels[isect.level] =
                  [ level_index |-> 1, scale |-> 2, shape_in_tiles |-> <<5, 5>>,
                    image_config |-> [base_shape |-> <<1000, 1000>>, tile_size |-> 100] ]
            /\ caller_corners = << <<RatInt(0), RatInt(0)>>, <<RatInt(250), RatInt(250)>> >>)
           => /\ isect._row_range = range(0, 2)
              /\ isect._col_range = range(0, 2)
              /\ [k \in 1 .. 4 |-> << heap[ret.chunks[k]].location.row,
                                       heap[ret.chunks[k]].location.col >>]
                     = << <<0, 0>>, <<0, 1>>, <<1, 0>>, <<1, 1>> >>

\* The scenario: the four chunks of corners (0,0)..(250,250) at scale 2.
C9_Witness ==
    /\ Returned
    /\ levels[isect.level].scale = 2
    /\ levels[isect.level].image_config.tile_size = 100
    /\ levels[isect.level].shape_in_tiles = <<5, 5>>
    /\ caller_corners = << <<RatInt(0), RatInt(0)>>, <<RatInt(250), RatInt(250)>> >>
    /\ Len(ret.chunks) = 4

\* C10: every entry of the normalized_range of every intersection built
\* lies in [0, 1].
C10_NormalizedRangeInUnitInterval ==
    isect # Null =>
        \A a \in 1 .. 2 : \A e \in 1 .. 2 :
            /\ RatLeq(RatInt(0), isect.normalized_range[a][e])
            /\ RatLeq(isect.normalized_range[a][e], RatInt(1))

\* An intersection built from corners that start below 0 on the row axis
\* and end beyond the base image on the column axis.
C10_Witness ==
    /\ isect # Null
    /\ RatLess(caller_corners[1][1], RatInt(0))
    /\ RatLess(RatInt(levels[isect.level].image_config.base_shape[2]), caller_corners[2][2])
    /\ isect.normalized_range[1][1] = RatInt(0)
    /\ isect.normalized_range[2][2] = RatInt(1)

\* C4: is_visible(row, col) is true exactly when row lies in row_range and
\* col in col_range, both half-open; it is false one below either start and
\* at either stop; and the call changes neither the intersection nor any
\* grid or chunk.
C4_IsVisibleIffInRanges ==
    /\ [](ret.op = "is_visible" =>
            /\ ret.result =
                  (/\ ret.row \in isect._row_range.start .. (isect._row_range.stop - 1)
                   /\ ret.col \in isect._col_range.start .. (isect._col_range.stop - 1))
            /\ (\/ ret.row = isect._row_range.start - 1
                \/ ret.row = isect._row_range.stop
                \/ ret.col = isect._col_range.start - 1
                \/ ret.col = isect._col_range.stop) => ~ret.result)
    /\ [][(nops' = nops + 1 /\ ret'.op = "is_visible") =>
            UNCHANGED <<levels, tiles, heap, isect, caller_corners>>]_vars

\* is_visible answered False for the row at row_range.stop and a column in
\* range, on a grid that already holds chunks.
C4_Witness ==
    /\ ret.op = "is_visible"
    /\ ret.row = isect._row_range.stop
    /\ ret.col = isect._col_range.start
    /\ ~ret.result
    /\ Len(heap) > 0

\* The tile size of the level the current intersection was built on.
TileSize == levels[isect.level].image_config.tile_size

\* C3: tile_range returns a range inside [0, num_tiles] for every span
\* with span[0] <= span[1]; the ranges of every intersection lie inside its
\* level's grid, and get_chunks raises no IndexError and creates no chunk
\* located outside the grid.
C3_RangeWithinGrid ==
    /\ ret.op = "tile_range" =>
          /\ 0 <= ret.result.start
          /\ ret.result.stop <= ret.num_tiles
    /\ isect # Null =>
          /\ 0 <= isect._row_range.start
          /\ isect._row_range.stop <= Len(tiles[isect.level])
          /\ 0 <= isect._col_range.start
          /\ isect._col_range.stop <= Len(tiles[isect.level][1])
    /\ ret.op = "get_chunks" =>
          /\ ~ret.error
          /\ \A i \in 1 .. Len(ret.created) :
                /\ ret.created[i].location.row \in Rows(isect.level)
                /\ ret.created[i].location.col \in Cols(isect.level)

\* tile_range was given a span that starts below 0 and ends beyond the last
\* of several tiles, and returned all of them.
C3_Witness ==
    /\ ret.op = "tile_range"
    /\ ret.num_tiles > 1
    /\ RatLess(ret.span[1], RatInt(0))
    /\ RatLess(RatInt(ret.num_tiles * TileSize), ret.span[2])
    /\ ret.result = range(0, ret.num_tiles)

\* The span, in level coordinates, lies entirely below 0.
Below(span) == RatLess(span[2], RatInt(0))

\* The span lies entirely at or above the end of num_tiles tiles.
Above(span, num_tiles) == RatLeq(RatInt(num_tiles * TileSize), span[1])

Overlaps(i, span) ==
    /\ RatLeq(RatInt(i * TileSize), span[2])
    /\ RatLess(span[1], RatInt((i + 1) * TileSize))

\* C6: for a span with 0 <= span[0] <= span[1] < num_tiles * tile_size,
\* the range tile_range returns holds exactly the tile indices whose extent
\* overlaps the span.
C6_RangeIsOverlappingTiles ==
    (/\ ret.op = "tile_range"
     /\ RatLeq(RatInt(0), ret.span[1])
     /\ RatLeq(ret.span[1], ret.span[2])
     /\ RatLess(ret.span[2], RatInt(ret.num_tiles * TileSize)))
    => \A i \in -1 .. (ret.num_tiles + 1) :
          (ret.result.start <= i /\ i < ret.result.stop) <=> Overlaps(i, ret.span)

\* A span that starts inside tile 0 and ends exactly on the boundary
\* between tile 0 and tile 1: both tiles are returned.
C6_Witness ==
    /\ ret.op = "tile_range"
    /\ ret.num_tiles > 1
    /\ RatLess(RatInt(0), ret.span[1])
    /\ RatLess(ret.span[1], ret.span[2])
    /\ ret.span[2] = RatInt(TileSize)
    /\ ret.result = range(0, 2)

\* The chunk thread t's finished call returned for cell rc.
ReturnedFor(t, rc) ==
    threads[t].chunks[CHOOSE k \in 1 .. Len(threads[t].chunks) :
                          RowMajor(threads[t].I)[k] = rc]

\* The cells two intersections on the same level have in common.
SharedCells(I, J) ==
    IF I.level # J.level THEN {}
    ELSE { rc \in (I._row_range.start .. (I._row_range.stop - 1))
                     \X (I._col_range.start .. (I._col_range.stop - 1)) :
             InRanges(J, rc[1], rc[2]) }

\* C7: when get_chunks calls of several threads interleave between the
\* read of a cell and the write of its chunk, no tile ever has two chunk
\* objects created for it, and two finished calls have returned the same
\* chunk object for every tile they share.
C7_MaterializedOnceAcrossThreads ==
    /\ \A i, j \in 1 .. Len(heap) :
          (/\ heap[i].location.level_index = heap[j].location.level_index
           /\ heap[i].location.row = heap[j].location.row
           /\ heap[i].location.col = heap[j].location.col) => i = j
    /\ \A t, u \in Threads :
          (threads[t].pc = "done" /\ threads[u].pc = "done") =>
              \A rc \in SharedCells(threads[t].I, threads[u].I) :
                  ReturnedFor(t, rc) = ReturnedFor(u, rc)

\* The step is a call made by the caller of Spec.
CallStep == nops' = nops + 1

\* C11: when the constructor returns, the caller's corners array holds the
\* values that were passed in, at every level scale, and no later
\* is_visible or get_chunks call changes it.
C11_CallerCornersUntouched ==
    /\ [](ret.op = "init" => caller_corners = ret.corners_2d)
    /\ [][(CallStep /\ ret'.op \in {"is_visible", "get_chunks"}) =>
            caller_corners' = caller_corners]_vars

\* get_chunks has returned on an intersection of the level of scale 4
\* whose own corners differ from the caller's, which are still one of the
\* viewports passed in.
C11_Witness ==
    /\ Returned
    /\ levels[isect.level].scale = 4
    /\ isect.corners_2d # caller_corners
    /\ caller_corners \in Viewports

\* The number of elements of sequence q that satisfy Test.
Count(q, Test(_)) == Cardinality({ i \in 1 .. Len(q) : Test(q[i]) })

\* C12: the layers command prints the header (with the ID, NAME and LAYER
\* columns) and then one row per layer of the viewer, showing that layer's
\* name and shape, so every shape appears as often as there are layers of
\* that shape; with no layers only the header is printed.
C12_LayersTableRowPerLayer ==
    ret.op = "layers" =>
        /\ {"ID", "NAME", "LAYER"} \subseteq { ret.out[1][k] : k \in 1 .. Len(ret.out[1]) }
        /\ Len(ret.out) = 1 + Len(viewer_layers)
        /\ \A i \in 1 .. Len(viewer_layers) :
              /\ ret.out[i + 1][2] = viewer_layers[i].name
              /\ ret.out[i + 1][4] = viewer_layers[i].shape
        /\ \A shape \in LayerShapes :
              LET ShownIn(row) == row[4] = shape
                  ShapeOf(layer) == layer.shape = shape IN
              Count(Tail(ret.out), ShownIn) = Count(viewer_layers, ShapeOf)
        /\ viewer_layers = <<>> => ret.out = <<LayersHeader>>

\* The table printed for a viewer with several layers, all of shape
\* (10, 15).
C12_Witness ==
    /\ ret.op = "layers"
    /\ Len(viewer_layers) = MaxLayers
    /\ \A i \in 1 .. Len(viewer_layers) : viewer_layers[i].shape = <<10, 15>>
    /\ Len(ret.out) = MaxLayers + 1

\* C13: the chunk in cell (row, col) of a level has the geometry position
\* (x, y) = (col * tile_size * scale, row * tile_size * scale), a multiple
\* of tile_size * scale on both axes, and the geometry scale (scale, scale),
\* whichever call created it, wherever that call's ranges started and
\* whichever cells it found already materialized.
C13_GeomPosIsCellTimesScaledSize ==
    \A l \in LevelIds : \A row \in Rows(l) : \A col \in Cols(l) :
        IsChunk(Cell(l, row, col)) =>
            LET geom == heap[Cell(l, row, col).id].geom
                size == levels[l].image_config.tile_size * levels[l].scale IN
            /\ geom.pos = <<col * size, row * size>>
            /\ geom.pos[1] % size = 0 /\ geom.pos[2] % size = 0
            /\ geom.scale = <<levels[l].scale, levels[l].scale>>

\* A call whose column range starts after column 0 and spans several rows
\* has returned; in a row other than its first it skipped a cell that was
\* already a chunk and created the chunk of a later cell of the same row.
C13_Witness ==
    /\ Returned
    /\ isect._col_range.start > 0
    /\ \E j, k \in 1 .. Len(ret.chunks) :
          /\ j < k
          /\ RowMajor(isect)[j][1] = RowMajor(isect)[k][1]
          /\ RowMajor(isect)[j][1] > isect._row_range.start
          /\ ret.chunks[j] <= Len(heap) - Len(ret.created)
          /\ ret.chunks[k] > Len(heap) - Len(ret.created)
          /\ heap[ret.chunks[k]].geom.pos[1] > 0

\* x limited to [0, 1].
Clamp01(x) ==
    IF RatLess(x, RatInt(0)) THEN RatInt(0)
    ELSE IF RatLess(RatInt(1), x) THEN RatInt(1) ELSE x

\* C14: the normalized_range of an intersection is, per axis, the corners
\* passed in divided by the base shape and clamped to [0, 1]: it is taken
\* from the corners before they are divided by the level's scale, so the
\* same corners give the same normalized_range on every level.
C14_NormalizedRangeBeforeRescale ==
    isect # Null =>
        LET base == levels[isect.level].image_config.base_shape IN
        /\ \A a \in 1 .. 2 : \A e \in 1 .. 2 :
              isect.normalized_range[a][e] =
                  Clamp01(RatDiv(caller_corners[e][a], RatInt(base[a])))
        /\ \A l \in LevelIds :
              OctreeIntersection(l, caller_corners).normalized_range =
                  isect.normalized_range

\* An intersection on the level of scale 4 whose normalized_range has an
\* entry strictly between 0 and 1 on each axis, and whose rows and cols
\* are the corners divided by 4.
C14_Witness ==
    /\ isect # Null
    /\ levels[isect.level].scale = 4
    /\ \A a \in 1 .. 2 : \E e \in 1 .. 2 :
          /\ RatLess(RatInt(0), isect.normalized_range[a][e])
          /\ RatLess(isect.normalized_range[a][e], RatInt(1))
    /\ isect.rows[2] = RatDiv(caller_corners[2][1], RatInt(4))
    /\ isect.rows[2] # caller_corners[2][1]

\* C15: after construction the intersection's own corners_2d holds the
\* values the caller passed, in base data coordinates, while rows and cols
\* hold the corners divided by the level's scale.
C15_OwnCornersKeepInputValues ==
    isect # Null =>
        LET scale == RatInt(levels[isect.level].scale) IN
        /\ isect.corners_2d = caller_corners
        /\ isect.rows = << RatDiv(caller_corners[1][1], scale),
                           RatDiv(caller_corners[2][1], scale) >>
        /\ isect.cols = << RatDiv(caller_corners[1][2], scale),
                           RatDiv(caller_corners[2][2], scale) >>

\* The raw payload of a cell of grid g: the cell's content while it is raw,
\* the data of its chunk (an object of hp) once it is materialized.
PayloadOf(g, hp, l, row, col) ==
    LET cell == g[l][row + 1][col + 1] IN
    IF IsChunk(cell) THEN hp[cell.id].data ELSE cell

\* C16: a get_chunks call turns every raw cell (row, col) of its ranges
\* into a chunk created by this call whose data is the payload the cell
\* held before the call and whose location is (slice_id of the call,
\* level_index of the level, row, col), and the cell afterwards holds that
\* chunk; every cell of every level keeps its own payload.
C16_ChunkWrapsItsCellsPayload ==
    [][GetChunksStep =>
        /\ \A row \in Rows(isect.level) : \A col \in Cols(isect.level) :
              (InRanges(isect, row, col) /\ ~IsChunk(Cell(isect.level, row, col))) =>
                  LET new == tiles'[isect.level][row + 1][col + 1] IN
                  /\ IsChunk(new)
                  /\ new.id > Len(heap) /\ new.id <= Len(heap')
                  /\ heap'[new.id].data = Cell(isect.level, row, col)
                  /\ heap'[new.id].location =
                        [ slice_id |-> ret'.slice_id,
                          level_index |-> levels[isect.level].level_index,
                          row |-> row,
                          col |-> col ]
        /\ \A l \in LevelIds : \A row \in Rows(l) : \A col \in Cols(l) :
              PayloadOf(tiles', heap', l, row, col) = PayloadOf(tiles, heap, l, row, col)
      ]_vars

\* A call with slice_id 1 has created the chunks of at least two cells away
\* from row 0 and column 0, each holding the raw payload of its own cell.
C16_Witness ==
    /\ Returned
    /\ ret.slice_id = 1
    /\ Len(ret.created) >= 2
    /\ \A i \in 1 .. Len(ret.created) :
          /\ ret.created[i].data = Raw(levels[isect.level].level_index,
                                       ret.created[i].location.row,
                                       ret.created[i].location.col)
          /\ ret.created[i].location.slice_id = 1
    /\ \E i \in 1 .. Len(ret.created) :
          ret.created[i].location.row > 0 /\ ret.created[i].location.col > 0

\* C17: the chunk in cell (row, col) of a level is located at that row,
\* that column and that level's index; a chunk keeps the location it was
\* created with, so its slice_id stays that of the call that created it,
\* and a call finding the cell materialized returns that chunk whatever
\* slice_id the call itself was given.
C17_LocationIsCellAndFirstSliceId ==
    /\ [](\A l \in LevelIds : \A row \in Rows(l) : \A col \in Cols(l) :
            IsChunk(Cell(l, row, col)) =>
                LET location == heap[Cell(l, row, col).id].location IN
                /\ location.row = row
                /\ location.col = col
                /\ location.level_index = levels[l].level_index)
    /\ [][
           /\ \A id \in 1 .. Len(heap) :
                id <= Len(heap') /\ heap'[id].location = heap[id].location
           /\ GetChunksStep =>
                /\ \A id \in (Len(heap) + 1) .. Len(heap') :
                      heap'[id].location.slice_id = ret'.slice_id
                /\ \A row \in Rows(isect.level) : \A col \in Cols(isect.level) :
                      (InRanges(isect, row, col) /\ IsChunk(Cell(isect.level, row, col))) =>
                          \E k \in 1 .. Len(ret'.chunks) :
                              /\ RowMajor(isect)[k] = <<row, col>>
                              /\ ret'.chunks[k] = Cell(isect.level, row, col).id
         ]_vars

\* A call with slice_id 1 has returned, from the cell it sits in, a chunk
\* whose location carries slice_id 0, next to a chunk this call created
\* with slice_id 1.
C17_Witness ==
    /\ Returned
    /\ ret.slice_id = 1
    /\ \E j, k \in 1 .. Len(ret.chunks) :
          /\ heap[ret.chunks[j]].location.slice_id = 0
          /\ Cell(isect.level, RowMajor(isect)[j][1], RowMajor(isect)[j][2]) =
                ChunkRef(ret.chunks[j])
          /\ heap[ret.chunks[k]].location.slice_id = 1
          /\ ret.chunks[k] > Len(heap) - Len(ret.created)

\* C18: tile_range returns a range with start < stop for every span with
\* span[0] <= span[1]; both ranges of every intersection are non-empty, so
\* is_visible holds for at least one tile, and get_chunks returns at least
\* one chunk.
C18_RangeNeverEmpty ==
    /\ ret.op = "tile_range" =>
          (RatLeq(ret.span[1], ret.span[2]) => ret.result.start < ret.result.stop)
    /\ isect # Null =>
          /\ isect._row_range.start < isect._row_range.stop
          /\ isect._col_range.start < isect._col_range.stop
          /\ \E row \in Rows(isect.level) : \E col \in Cols(isect.level) :
                is_visible(isect, row, col)
    /\ ret.op = "get_chunks" => (~ret.error /\ Len(ret.chunks) >= 1)

\* tile_range was called with a span of a single point lying beyond the
\* last of several tiles and returned the range of the last tile alone.
C18_Witness ==
    /\ ret.op = "tile_range"
    /\ ret.num_tiles > 1
    /\ ret.span[1] = ret.span[2]
    /\ RatLess(RatInt(ret.num_tiles * TileSize), ret.span[1])
    /\ ret.result = range(ret.num_tiles - 1, ret.num_tiles)
    /\ RangeLen(ret.result) = 1

====
